---- MODULE Spec2Model ----
(***************************************************************************)
(* A model of opsult's Future (class Future<T, E> extends                  *)
(* Promise<Result<T, E>>) on top of a model of the host's promise          *)
(* machinery: promises with reaction lists, and the microtask queue.       *)
(*                                                                         *)
(* heap     every promise object allocated so far (native promises and     *)
(*          Futures), addressed by its index                               *)
(* jobs     the microtask queue (FIFO)                                     *)
(*                                                                         *)
(* and of opsult's Option:                                                 *)
(*                                                                         *)
(* opts     every Option instance allocated so far, addressed by its index *)
(* lastCall the last Option operation the program called and how it ended  *)
(***************************************************************************)
EXTENDS Integers, Sequences, FiniteSets, TLC

VARIABLES heap, jobs, opts, lastCall

vars == <<heap, jobs, opts, lastCall>>

\* ---------------------------------------------------------------- bounds
\* payloads and reasons are 0..MaxVal; 0 stands for `undefined`
MaxVal == 1
\* native promises the surrounding program creates
MaxNative == 1
\* Futures the surrounding program creates with the constructor, from, parse,
\* ok and err
MaxFut == 2
\* of these, Futures created with the constructor and an executor of the program's
MaxCtor == 1
\* Futures the surrounding program creates with join
MaxJoins == 1
\* settle callbacks an executor invokes synchronously
MaxSync == 1
\* length of the list given to Future.join
MaxJoin == 2
\* Option instances, the shared None included
MaxOpts == 4

Vals == 0..MaxVal

\* what a raising executor raises
Thrown == {MaxVal}

\* ---------------------------------------------------------------- values
\* A JavaScript value of the model: a number (0: undefined) or an array of
\* numbers, bare ("Raw") or wrapped in a Result ("Ok", "Err").
Raw(n) == [tag |-> "Raw", isArr |-> FALSE, n |-> n, s |-> <<>>]

Undef == Raw(0)

Arr(s) == [tag |-> "Raw", isArr |-> TRUE, n |-> 0, s |-> s]

\* no settle callback invoked yet (history field `first`)
NoFirst == [tag |-> "None", isArr |-> FALSE, n |-> 0, s |-> <<>>]

\* Result.ok(value), Result.err(reason), and the accessors Future uses
ResultOk(v) == [v EXCEPT !.tag = "Ok"]

ResultErr(v) == [v EXCEPT !.tag = "Err"]

isOk(r) == r.tag = "Ok"

\* unwrap() is only reached on Ok, unwrapErr() only on Err (part_001:22-26, 51-55)
unwrap(r) == [r EXCEPT !.tag = "Raw"]

unwrapErr(r) == [r EXCEPT !.tag = "Raw"]

\* ---------------------------------------------------------------- promises
Handler(h, a, i) == [h |-> h, a |-> a, i |-> i]

\* a promise object, pending, with no reactions
NewPromise(kind, origin, src, ty) ==
    [kind |-> kind, state |-> "pending", val |-> Undef, reactions |-> <<>>,
     origin |-> origin, src |-> src, ty |-> ty,
     first |-> NoFirst, again |-> FALSE, raised |-> FALSE, runs |-> 0,
     els |-> <<>>, rem |-> 0, outOfOrder |-> FALSE]

\* the origins of the Futures the surrounding program holds
UserOrigins == {"ctor", "from", "parse", "ok", "err", "join"}

Alloc(M, rec) == [M EXCEPT !.heap = Append(@, rec)]

Last(M) == Len(M.heap)

\* A pending promise p becomes fulfilled or rejected with v: its reactions
\* are queued as microtasks, in registration order.
SettlePromise(M, p, st, v) ==
    LET rs == M.heap[p].reactions
        new == [k \in 1..Len(rs) |->
                  [h |-> IF st = "fulfilled" THEN rs[k].onFul ELSE rs[k].onRej,
                   target |-> rs[k].target, arg |-> v]]
    IN [heap |-> [M.heap EXCEPT ![p].state = st, ![p].val = v,
                                ![p].reactions = <<>>],
        jobs |-> M.jobs \o new]

\* The resolving functions of a promise: the first call decides, later
\* calls do nothing. (Every value resolved with here is not a thenable, but
\* for a Future handed to Promise.resolve, whose promise nothing else
\* resolves; so "already resolved" and "not pending" coincide.)
ResolveFn(M, p, v) ==
    IF M.heap[p].state # "pending" THEN M ELSE SettlePromise(M, p, "fulfilled", v)

RejectFn(M, p, e) ==
    IF M.heap[p].state # "pending" THEN M ELSE SettlePromise(M, p, "rejected", e)

\* history: the Result of the first settle callback invoked on Future f, and
\* whether a callback was invoked again after it
NoteFirst(M, f, r) ==
    IF M.heap[f].first.tag = "None" THEN [M EXCEPT !.heap[f].first = r]
    ELSE [M EXCEPT !.heap[f].again = TRUE]

\* faulty variant of settleOk: the callback settles the Future whether or not it is settled
settleOkOverride(M, f, v) ==
    SettlePromise(NoteFirst(M, f, ResultOk(v)), f, "fulfilled", ResultOk(v))

\* the two callbacks the constructor hands to the executor
settleOk(M, f, v) == ResolveFn(NoteFirst(M, f, ResultOk(v)), f, ResultOk(v))

settleErr(M, f, e) == ResolveFn(NoteFirst(M, f, ResultErr(e)), f, ResultErr(e))

\* promise.then(onFul, onRej) with `target` the promise it returns
Then(M, p, onFul, onRej, target) ==
    IF M.heap[p].state = "pending"
    THEN [M EXCEPT !.heap[p].reactions =
              Append(@, [onFul |-> onFul, onRej |-> onRej, target |-> target])]
    ELSE [M EXCEPT !.jobs =
              Append(@, [h |-> IF M.heap[p].state = "fulfilled" THEN onFul ELSE onRej,
                         target |-> target, arg |-> M.heap[p].val])]

Identity == Handler("identity", 0, 0)

Thrower == Handler("thrower", 0, 0)

\* super((resolve) => ...): the Future object, before its executor ran
FutureNew(M, origin, src) == Alloc(M, NewPromise("future", origin, src, "plain"))

NativeNew(M, origin, src) == Alloc(M, NewPromise("native", origin, src, "plain"))

\* ---------------------------------------------------------------- Future
\* one settle callback invocation by an executor: [k |-> "ok" | "err", v |-> payload]
Calls == [k : {"ok", "err"}, v : Vals]

ApplyCall(M, f, c) ==
    IF c.k = "ok" THEN settleOk(M, f, Raw(c.v)) ELSE settleErr(M, f, Raw(c.v))

RECURSIVE RunCalls(_, _, _)
RunCalls(M, f, cs) ==
    IF cs = <<>> THEN M ELSE RunCalls(ApplyCall(M, f, Head(cs)), f, Tail(cs))

\* executor(settleOk, settleErr): one invocation of the program's executor for
\* Future f, which invokes the callbacks `calls` (history: `runs` counts the
\* invocations)
Executor(M, f, calls) == RunCalls([M EXCEPT !.heap[f].runs = @ + 1], f, calls)

\* faulty variant of FutureCtor: the executor is invoked a second time
FutureCtorTwice(M, calls, raises, e) ==
    LET M1 == FutureNew(M, "ctor", <<>>)
        f  == Last(M1)
        M2 == Executor(Executor(M1, f, calls), f, calls)
    IN IF raises
       THEN RejectFn([M2 EXCEPT !.heap[f].raised = TRUE], f, Raw(e))
       ELSE M2

\* faulty variant of FutureCtor: a raise of the executor rejects the Future
\* even when a callback has settled it
FutureCtorRaiseWins(M, calls, raises, e) ==
    LET M1 == FutureNew(M, "ctor", <<>>)
        f  == Last(M1)
        M2 == Executor(M1, f, calls)
    IN IF raises
       THEN SettlePromise([M2 EXCEPT !.heap[f].raised = TRUE], f, "rejected", Raw(e))
       ELSE M2

\* new Future(executor): the executor runs inside the Promise constructor,
\* invoking the callbacks `calls` and then returning or raising e. The
\* Promise constructor turns a raise into a call of its reject function.
FutureCtor(M, calls, raises, e) ==
    LET M1 == FutureNew(M, "ctor", <<>>)
        f  == Last(M1)
        M2 == Executor(M1, f, calls)
    IN IF raises
       THEN RejectFn([M2 EXCEPT !.heap[f].raised = TRUE], f, Raw(e))
       ELSE M2

\* faulty variant of FutureFrom: the callbacks swapped, promise.then(err).catch(ok)
FutureFromSwapped(M, p) ==
    LET M1 == FutureNew(M, "from", <<p>>)
        f  == Last(M1)
        M2 == NativeNew(M1, "then", <<p>>)
        p2 == Last(M2)
        M3 == Then(M2, p, Handler("settleErr", f, 0), Thrower, p2)
        M4 == NativeNew(M3, "then", <<p2>>)
    IN Then(M4, p2, Identity, Handler("settleOk", f, 0), Last(M4))

\* faulty variant of FutureFrom: the rejection left unhandled, promise.then(ok)
FutureFromNoCatch(M, p) ==
    LET M1 == FutureNew(M, "from", <<p>>)
        f  == Last(M1)
        M2 == NativeNew(M1, "then", <<p>>)
    IN Then(M2, p, Handler("settleOk", f, 0), Thrower, Last(M2))

\* Future.from(promise): promise.then(ok).catch(err)
FutureFrom(M, p) ==
    LET M1 == FutureNew(M, "from", <<p>>)
        f  == Last(M1)
        M2 == NativeNew(M1, "then", <<p>>)
        p2 == Last(M2)
        M3 == Then(M2, p, Handler("settleOk", f, 0), Thrower, p2)
        M4 == NativeNew(M3, "then", <<p2>>)
    IN Then(M4, p2, Identity, Handler("settleErr", f, 0), Last(M4))

\* faulty variant of FutureParse: the promise's rejection is handed to err,
\* promise.then((result) => ..., err)
FutureParseCatch(M, p) ==
    LET M1 == FutureNew(M, "parse", <<p>>)
        f  == Last(M1)
        M2 == NativeNew(M1, "then", <<p>>)
    IN Then(M2, p, Handler("parseCb", f, 0), Handler("settleErr", f, 0), Last(M2))

\* Future.parse(promise): promise.then((result) => ...)
FutureParse(M, p) ==
    LET M1 == FutureNew(M, "parse", <<p>>)
        f  == Last(M1)
        M2 == NativeNew(M1, "then", <<p>>)
    IN Then(M2, p, Handler("parseCb", f, 0), Thrower, Last(M2))

\* faulty variant of FutureOk: the Future is settled by a microtask, after ok returned
FutureOkDeferred(M, v) ==
    LET M1 == FutureNew(M, "ok", <<>>)
    IN [M1 EXCEPT !.jobs = Append(@, [h |-> Handler("settleOk", Last(M1), 0),
                                       target |-> 0, arg |-> Raw(v)])]

\* Future.ok(value), Future.err(reason)
FutureOk(M, v) ==
    LET M1 == FutureNew(M, "ok", <<>>) IN settleOk(M1, Last(M1), Raw(v))

FutureErr(M, e) ==
    LET M1 == FutureNew(M, "err", <<>>) IN settleErr(M1, Last(M1), Raw(e))

\* faulty variant of AllRemaining: the aggregate waits for the first element only
AllRemainingFirst(n) == IF n = 0 THEN 0 ELSE 1

\* Promise.all's count of elements still awaited, after its loop over n inputs
AllRemaining(n) == n

\* Promise.all(futures), the host's algorithm: each input goes through
\* Promise.resolve (a Future is not a %Promise%, so it is wrapped in a new
\* native promise w that a microtask links to it with input.then), and w gets
\* the element's resolve function and the aggregate's reject function.
\* (The promises w.then returns are referenced by nothing and left out.)
RECURSIVE AllLoop(_, _, _, _)
AllLoop(M, A, inputs, i) ==
    IF i > Len(inputs) THEN M
    ELSE LET M1 == NativeNew(M, "wrap", <<inputs[i]>>)
             w  == Last(M1)
             M2 == [M1 EXCEPT !.jobs = Append(@,
                       [h |-> Handler("thenJob", inputs[i], w), target |-> 0,
                        arg |-> Undef])]
             M3 == Then(M2, w, Handler("resolveEl", A, i), Handler("rejectAll", A, 0), 0)
         IN AllLoop(M3, A, inputs, i + 1)

PromiseAll(M, inputs) ==
    LET n  == Len(inputs)
        M1 == Alloc(M, [NewPromise("native", "all", inputs, "plain")
                          EXCEPT !.els = [k \in 1..n |-> Undef],
                                 !.rem = AllRemaining(n)])
        A  == Last(M1)
        M2 == AllLoop(M1, A, inputs, 1)
    IN IF M2.heap[A].rem = 0 THEN ResolveFn(M2, A, Undef) ELSE M2

\* faulty variant of FutureJoin: the aggregate's rejection is handed to err,
\* Promise.all(futures).then((results) => ..., err)
FutureJoinCatch(M, futures) ==
    LET M1 == FutureNew(M, "join", futures)
        j  == Last(M1)
        A  == j + 1
        M2 == PromiseAll(M1, futures)
        M3 == NativeNew(M2, "then", <<A>>)
    IN Then(M3, A, Handler("joinCb", j, A), Handler("settleErr", j, 0), Last(M3))

\* Future.join(futures): Promise.all(futures).then((results) => ...)
FutureJoin(M, futures) ==
    LET M1 == FutureNew(M, "join", futures)
        j  == Last(M1)
        A  == j + 1
        M2 == PromiseAll(M1, futures)
        M3 == NativeNew(M2, "then", <<A>>)
    IN Then(M3, A, Handler("joinCb", j, A), Thrower, Last(M3))

\* the partition loop of join's callback
JoinErrors(results) ==
    LET es == SelectSeq(results, LAMBDA r : ~isOk(r))
    IN [k \in 1..Len(es) |-> unwrapErr(es[k]).n]

JoinValues(results) ==
    LET vs == SelectSeq(results, LAMBDA r : isOk(r))
    IN [k \in 1..Len(vs) |-> unwrap(vs[k]).n]

\* faulty variant of JoinCb: the test is on the values, not on the errors
JoinCbValuesFirst(M, j, results) ==
    IF Len(JoinValues(results)) # 0
    THEN settleOk(M, j, Arr(JoinValues(results)))
    ELSE settleErr(M, j, Arr(JoinErrors(results)))

JoinCb(M, j, results) ==
    IF Len(JoinErrors(results)) # 0
    THEN settleErr(M, j, Arr(JoinErrors(results)))
    ELSE settleOk(M, j, Arr(JoinValues(results)))

\* faulty variant of ParseCb: the else branch is missing
ParseCbOkOnly(M, f, result) ==
    IF isOk(result) THEN settleOk(M, f, unwrap(result)) ELSE M

\* faulty variant of ParseCb: the inner Result's variant is not looked at
ParseCbAlwaysOk(M, f, result) == settleOk(M, f, unwrap(result))

ParseCb(M, f, result) ==
    IF isOk(result) THEN settleOk(M, f, unwrap(result))
    ELSE settleErr(M, f, unwrapErr(result))

\* faulty variant of ResolveElement: the results are collected in completion order
ResolveElementPush(M, A, i, x) ==
    LET free == {k \in 1..Len(M.heap[A].els) : M.heap[A].els[k].tag = "Raw"}
        slot == CHOOSE k \in free : \A l \in free : k <= l
        M1   == [M EXCEPT !.heap[A].els[slot] = x, !.heap[A].rem = @ - 1]
    IN IF M1.heap[A].rem = 0 THEN ResolveFn(M1, A, Undef) ELSE M1

\* Promise.all's resolve-element function for index i of aggregate A
ResolveElement(M, A, i, x) ==
    LET M1 == [M EXCEPT !.heap[A].els[i] = x, !.heap[A].rem = @ - 1,
                        !.heap[A].outOfOrder =
                            @ \/ \E k \in 1..(i - 1) : M.heap[A].els[k].tag = "Raw"]
    IN IF M1.heap[A].rem = 0 THEN ResolveFn(M1, A, Undef) ELSE M1

\* ---------------------------------------------------------------- microtasks
\* calling a reaction's handler with arg: the new machine, what the handler
\* returned (or raised), and whether it raised
Ret(M, v, threw) == [m |-> M, ret |-> v, threw |-> threw]

Call(M, h, arg) ==
    CASE h.h = "identity"  -> Ret(M, arg, FALSE)
      [] h.h = "thrower"   -> Ret(M, arg, TRUE)
      [] h.h = "settleOk"  -> Ret(settleOk(M, h.a, arg), Undef, FALSE)
      [] h.h = "settleErr" -> Ret(settleErr(M, h.a, arg), Undef, FALSE)
      [] h.h = "parseCb"   -> Ret(ParseCb(M, h.a, arg), Undef, FALSE)
      [] h.h = "joinCb"    -> Ret(JoinCb(M, h.a, M.heap[h.i].els), Undef, FALSE)
      [] h.h = "resolveEl" -> Ret(ResolveElement(M, h.a, h.i, arg), Undef, FALSE)
      [] h.h = "rejectAll" -> Ret(RejectFn(M, h.a, arg), Undef, FALSE)
      [] h.h = "resolveP"  -> Ret(ResolveFn(M, h.a, arg), Undef, FALSE)
      [] h.h = "rejectP"   -> Ret(RejectFn(M, h.a, arg), Undef, FALSE)

\* the resolve and reject of the capability of a promise `then` returned: for a
\* Future (made through Symbol.species) they are the constructor's callbacks
ResolveCap(M, t, v) ==
    IF M.heap[t].kind = "future" THEN settleOk(M, t, v) ELSE ResolveFn(M, t, v)

RejectCap(M, t, e) ==
    IF M.heap[t].kind = "future" THEN settleErr(M, t, e) ELSE RejectFn(M, t, e)

\* one microtask: a thenable job (input.then(resolve-w, reject-w), whose
\* derived promise is a Future built by species) or a reaction job
RunMicrotask(M, J) ==
    IF J.h.h = "thenJob"
    THEN LET M1 == FutureNew(M, "then", <<J.h.a>>)
         IN Then(M1, J.h.a, Handler("resolveP", J.h.i, 0),
                 Handler("rejectP", J.h.i, 0), Last(M1))
    ELSE LET R == Call(M, J.h, J.arg)
         IN IF J.target = 0 THEN R.m
            ELSE IF R.threw THEN RejectCap(R.m, J.target, R.ret)
            ELSE ResolveCap(R.m, J.target, R.ret)

\* ---------------------------------------------------------------- Option
\* An Option instance is a record of its two fields, _value and _isSome
\* (payloads are 0..MaxVal, 0 standing for `undefined`). The machine O of an
\* Option operation is [opts |-> the instances allocated so far, invoked |->
\* the function arguments the operation has invoked, in order].

\* new Option(value, isSome)
OptionCtor(O, value, isSome) ==
    [O EXCEPT !.opts = Append(@, [value |-> value, isSome |-> isSome])]

\* private static _none = new Option(undefined, false): the one instance there
\* is once the class is defined
OptionsAtLoad == OptionCtor([opts |-> <<>>, invoked |-> <<>>], 0, FALSE).opts

noneInstance == Len(OptionsAtLoad)

\* how an operation ends: it returns a boolean, a payload or an Option
\* instance (by index), or it raises (own: by its own throw statement, not by
\* a function argument's)
RetBool(O, b) ==
    [opts |-> O.opts, invoked |-> O.invoked, threw |-> FALSE, own |-> FALSE,
     kind |-> "bool", b |-> b, n |-> 0]

RetVal(O, n) ==
    [opts |-> O.opts, invoked |-> O.invoked, threw |-> FALSE, own |-> FALSE,
     kind |-> "val", b |-> FALSE, n |-> n]

RetOpt(O, i) ==
    [opts |-> O.opts, invoked |-> O.invoked, threw |-> FALSE, own |-> FALSE,
     kind |-> "opt", b |-> FALSE, n |-> i]

Raise(O, own, n) ==
    [opts |-> O.opts, invoked |-> O.invoked, threw |-> TRUE, own |-> own,
     kind |-> "error", b |-> FALSE, n |-> n]

\* What a function argument does when invoked: it raises n, or returns the
\* payload n ("val"), or returns None() ("none"), a new Some(n) ("some") or the
\* instance n it captured ("inst").
ValOutcomes == [k : {"val"}, n : Vals] \cup [k : {"throw"}, n : Thrown]

OptOutcomes(held) ==
    [k : {"none"}, n : {0}] \cup [k : {"some"}, n : Vals]
        \cup [k : {"inst"}, n : 1..Len(held)] \cup [k : {"throw"}, n : Thrown]

\* functions of the payload, and functions of no argument
ValFns == [Vals -> ValOutcomes]

ValThunks == ValOutcomes

OptFns(held) == [Vals -> OptOutcomes(held)]

OptThunks(held) == OptOutcomes(held)

Invoked(O, name, arg, out) ==
    [O EXCEPT !.invoked = Append(@, [fn |-> name, arg |-> arg, k |-> out.k, n |-> out.n])]

\* public static Some(value), public static None()
OptionSome(O, value) ==
    LET O1 == OptionCtor(O, value, TRUE) IN RetOpt(O1, Len(O1.opts))

OptionNone(O) == RetOpt(O, noneInstance)

\* the call name(arg) of a function argument whose outcome on arg is out
Invoke(O, name, arg, out) ==
    LET O1 == Invoked(O, name, arg, out)
    IN CASE out.k = "throw" -> Raise(O1, FALSE, out.n)
         [] out.k = "val"   -> RetVal(O1, out.n)
         [] out.k = "none"  -> OptionNone(O1)
         [] out.k = "some"  -> OptionSome(O1, out.n)
         [] out.k = "inst"  -> RetOpt(O1, out.n)

\* faulty variant of OptionIsNone: the test is on the payload, this._value === undefined
OptionIsNoneByValue(O, self) == RetBool(O, O.opts[self].value = 0)

OptionIsSome(O, self) == RetBool(O, O.opts[self].isSome)

OptionIsNone(O, self) == RetBool(O, ~O.opts[self].isSome)

\* faulty variant of OptionUnwrap: the variant is not tested
OptionUnwrapUnchecked(O, self) == RetVal(O, O.opts[self].value)

\* unwrap(): throw new Error("Called Option::unwrap on None")
OptionUnwrap(O, self) ==
    IF O.opts[self].isSome THEN RetVal(O, O.opts[self].value) ELSE Raise(O, TRUE, 0)

\* faulty variant of OptionUnwrapOr: the test is on the payload, this._value ?? defaultValue
OptionUnwrapOrNullish(O, self, defaultValue) ==
    IF O.opts[self].value # 0 THEN RetVal(O, O.opts[self].value)
    ELSE RetVal(O, defaultValue)

OptionUnwrapOr(O, self, defaultValue) ==
    IF O.opts[self].isSome THEN RetVal(O, O.opts[self].value)
    ELSE RetVal(O, defaultValue)

OptionUnwrapOrElse(O, self, defaultValue) ==
    IF O.opts[self].isSome THEN RetVal(O, O.opts[self].value)
    ELSE Invoke(O, "defaultValue", 0, defaultValue)

\* faulty variant of OptionMap: f's result is dropped, Option.Some(this._value)
OptionMapKeepsValue(O, self, f) ==
    IF O.opts[self].isSome
    THEN LET R == Invoke(O, "f", O.opts[self].value, f[O.opts[self].value])
         IN IF R.threw THEN R ELSE OptionSome(R, O.opts[self].value)
    ELSE OptionNone(O)

OptionMap(O, self, f) ==
    IF O.opts[self].isSome
    THEN LET R == Invoke(O, "f", O.opts[self].value, f[O.opts[self].value])
         IN IF R.threw THEN R ELSE OptionSome(R, R.n)
    ELSE OptionNone(O)

OptionOr(O, self, other) ==
    IF O.opts[self].isSome THEN RetOpt(O, self) ELSE RetOpt(O, other)

OptionOrElse(O, self, defaultValue) ==
    IF O.opts[self].isSome THEN RetOpt(O, self)
    ELSE Invoke(O, "defaultValue", 0, defaultValue)

OptionAnd(O, self, other) ==
    IF O.opts[self].isSome THEN RetOpt(O, other) ELSE OptionNone(O)

OptionAndThen(O, self, other) ==
    IF O.opts[self].isSome
    THEN Invoke(O, "other", O.opts[self].value, other[O.opts[self].value])
    ELSE OptionNone(O)

\* faulty variant of OptionMatch: both branches are evaluated before the test
OptionMatchEager(O, self, some, none) ==
    LET R1 == Invoke(O, "some", O.opts[self].value, some[O.opts[self].value])
        R2 == Invoke(R1, "none", 0, none)
    IN IF R1.threw THEN R1
       ELSE IF R2.threw THEN R2
       ELSE IF O.opts[self].isSome THEN RetVal(R2, R1.n) ELSE R2

OptionMatch(O, self, some, none) ==
    IF O.opts[self].isSome
    THEN Invoke(O, "some", O.opts[self].value, some[O.opts[self].value])
    ELSE Invoke(O, "none", 0, none)

\* export const Some, export const None
Some(O, value) == OptionSome(O, value)

None(O) == OptionNone(O)

\* what the program sees of an operation `op` on instance self with the plain
\* argument arg that ended as R
Outcome(op, self, arg, R) ==
    [op |-> op, self |-> self, arg |-> arg, threw |-> R.threw, own |-> R.own,
     kind |-> R.kind, b |-> R.b, n |-> R.n, invoked |-> R.invoked]

NoOutcome ==
    Outcome("load", 0, 0,
            [RetBool([opts |-> OptionsAtLoad, invoked |-> <<>>], FALSE)
                EXCEPT !.kind = "none"])

\* ---------------------------------------------------------------- actions
Cur == [heap |-> heap, jobs |-> jobs]

Becomes(M) == heap' = M.heap /\ jobs' = M.jobs /\ UNCHANGED <<opts, lastCall>>

Ids == 1..Len(heap)

Natives == {p \in Ids : heap[p].origin = "env"}

UserFutures == {f \in Ids : heap[f].origin \in UserOrigins}

\* the Futures of element type T (number) that a join can be given
Joinable == {f \in UserFutures : heap[f].origin # "join"}

Joins == {f \in Ids : heap[f].origin = "join"}

SeqsUpTo(S, n) == UNION {[1..k -> S] : k \in 0..n}

\* The surrounding program's native promises exist from the start, pending:
\* each a Promise<T> ("plain") or a Promise<Result<T, E>> ("result").
Init ==
    /\ heap \in [1..MaxNative -> {NewPromise("native", "env", <<>>, ty) :
                                      ty \in {"plain", "result"}}]
    /\ jobs = <<>>
    /\ opts = OptionsAtLoad
    /\ lastCall = NoOutcome

\* a native promise fulfils with a value of its type, or rejects
FulfilNative(p, v) ==
    /\ heap[p].state = "pending"
    /\ Becomes(SettlePromise(Cur, p, "fulfilled", v))

RejectNative(p, e) ==
    /\ heap[p].state = "pending"
    /\ Becomes(SettlePromise(Cur, p, "rejected", Raw(e)))

Construct(calls, raises, e) ==
    /\ Cardinality(Joinable) < MaxFut
    /\ Cardinality({f \in Ids : heap[f].origin = "ctor"}) < MaxCtor
    /\ Becomes(FutureCtor(Cur, calls, raises, e))

\* an executor that kept its callbacks invokes one after the constructor returned
LaterCall(f, c) ==
    /\ heap[f].origin = "ctor"
    /\ Becomes(ApplyCall(Cur, f, c))

From(p) ==
    /\ Cardinality(Joinable) < MaxFut
    /\ heap[p].ty = "plain"
    /\ Becomes(FutureFrom(Cur, p))

Parse(p) ==
    /\ Cardinality(Joinable) < MaxFut
    /\ heap[p].ty = "result"
    /\ Becomes(FutureParse(Cur, p))

Ok(v) ==
    /\ Cardinality(Joinable) < MaxFut
    /\ Becomes(FutureOk(Cur, v))

Err(e) ==
    /\ Cardinality(Joinable) < MaxFut
    /\ Becomes(FutureErr(Cur, e))

Join(futures) ==
    /\ Cardinality(Joins) < MaxJoins
    /\ Becomes(FutureJoin(Cur, futures))

RunJob ==
    /\ jobs # <<>>
    /\ Becomes(RunMicrotask([Cur EXCEPT !.jobs = Tail(@)], Head(jobs)))

Next ==
    \/ \E p \in Natives, v \in Vals :
          FulfilNative(p, IF heap[p].ty = "plain" THEN Raw(v) ELSE ResultOk(Raw(v)))
    \/ \E p \in Natives, v \in Vals : heap[p].ty = "result" /\ FulfilNative(p, ResultErr(Raw(v)))
    \/ \E p \in Natives, e \in Vals : RejectNative(p, e)
    \/ \E calls \in SeqsUpTo(Calls, MaxSync), raises \in BOOLEAN, e \in Thrown :
          Construct(calls, raises, e)
    \/ \E f \in UserFutures, c \in Calls : LaterCall(f, c)
    \/ \E p \in Natives : From(p)
    \/ \E p \in Natives : Parse(p)
    \/ \E v \in Vals : Ok(v)
    \/ \E e \in Vals : Err(e)
    \/ \E futures \in SeqsUpTo(Joinable, MaxJoin) : Join(futures)
    \/ RunJob

Spec == Init /\ [][Next]_vars

\* ---------------------------------------------------------------- Option actions
\* A program that uses Option only: it calls the factories and, on the
\* instances it holds, the methods, with arguments of its choice.
OptCur == [opts |-> opts, invoked |-> <<>>]

OptIds == 1..Len(opts)

Returned(op, self, arg, R) ==
    /\ Len(R.opts) <= MaxOpts
    /\ opts' = R.opts
    /\ lastCall' = Outcome(op, self, arg, R)
    /\ UNCHANGED <<heap, jobs>>

OptInit ==
    /\ heap = <<>>
    /\ jobs = <<>>
    /\ opts = OptionsAtLoad
    /\ lastCall = NoOutcome

DoSome(v) == Returned("Some", 0, v, Some(OptCur, v))

DoNone == Returned("None", 0, 0, None(OptCur))

DoIsSome(i) == Returned("isSome", i, 0, OptionIsSome(OptCur, i))

DoIsNone(i) == Returned("isNone", i, 0, OptionIsNone(OptCur, i))

DoUnwrap(i) == Returned("unwrap", i, 0, OptionUnwrap(OptCur, i))

DoUnwrapOr(i, d) == Returned("unwrapOr", i, d, OptionUnwrapOr(OptCur, i, d))

DoUnwrapOrElse(i, d) == Returned("unwrapOrElse", i, 0, OptionUnwrapOrElse(OptCur, i, d))

DoMap(i, f) == Returned("map", i, 0, OptionMap(OptCur, i, f))

DoOr(i, j) == Returned("or", i, j, OptionOr(OptCur, i, j))

DoOrElse(i, d) == Returned("orElse", i, 0, OptionOrElse(OptCur, i, d))

DoAnd(i, j) == Returned("and", i, j, OptionAnd(OptCur, i, j))

DoAndThen(i, f) == Returned("andThen", i, 0, OptionAndThen(OptCur, i, f))

DoMatch(i, some, none) == Returned("match", i, 0, OptionMatch(OptCur, i, some, none))

OptNext ==
    \/ \E v \in Vals : DoSome(v)
    \/ DoNone
    \/ \E i \in OptIds : DoIsSome(i)
    \/ \E i \in OptIds : DoIsNone(i)
    \/ \E i \in OptIds : DoUnwrap(i)
    \/ \E i \in OptIds, d \in Vals : DoUnwrapOr(i, d)
    \/ \E i \in OptIds, d \in ValThunks : DoUnwrapOrElse(i, d)
    \/ \E i \in OptIds, f \in ValFns : DoMap(i, f)
    \/ \E i \in OptIds, j \in OptIds : DoOr(i, j)
    \/ \E i \in OptIds, d \in OptThunks(opts) : DoOrElse(i, d)
    \/ \E i \in OptIds, j \in OptIds : DoAnd(i, j)
    \/ \E i \in OptIds, f \in OptFns(opts) : DoAndThen(i, f)
    \/ \E i \in OptIds, some \in ValFns, none \in ValThunks : DoMatch(i, some, none)

OptionSpec == OptInit /\ [][OptNext]_vars

\* ---------------------------------------------------------------- claims
Futures == {f \in Ids : heap[f].kind = "future"}

\* C1: a Future leaves Pending at most once: once it is not pending, its state
\* and value never change, whatever callbacks are invoked later; and a Future
\* settled to a Result holds the Result of the first callback invocation.
C1_SingleSettlement ==
    [][/\ \A f \in Futures :
             heap[f].state # "pending"
                => heap'[f].state = heap[f].state /\ heap'[f].val = heap[f].val
       /\ \A f \in 1..Len(heap') :
             heap'[f].kind = "future" /\ heap'[f].state = "fulfilled"
                => heap'[f].val = heap'[f].first]_vars

\* C1 witness: a Future settled by its first callback whose callbacks were
\* invoked again
C1_Witness ==
    \E f \in Futures :
        /\ heap[f].origin = "ctor" /\ heap[f].state = "fulfilled"
        /\ heap[f].again /\ heap[f].val = heap[f].first

\* C2: no Future is ever natively rejected.
C2_NeverRejects == \A f \in Futures : heap[f].state # "rejected"

\* ---- helpers of the claims about from, parse and join
Quiescent == jobs = <<>>

Source(f) == heap[f].src[1]

Inputs(j) == heap[j].src

\* the aggregate Promise.all(futures) of join j, and the promise its .then returned
AllOf(j) == j + 1

ThenOf(j) == j + Len(Inputs(j)) + 2

AllFulfilled(j) == \A i \in 1..Len(Inputs(j)) : heap[Inputs(j)[i]].state = "fulfilled"

SomeRejected(j) == \E i \in 1..Len(Inputs(j)) : heap[Inputs(j)[i]].state = "rejected"

SomePending(j) == \E i \in 1..Len(Inputs(j)) : heap[Inputs(j)[i]].state = "pending"

\* the positions of join j's inputs that settled to the variant `tag`
TagPositions(j, tag) ==
    {i \in 1..Len(Inputs(j)) :
        heap[Inputs(j)[i]].state = "fulfilled" /\ heap[Inputs(j)[i]].val.tag = tag}

Occurrences(s, x) == Cardinality({k \in 1..Len(s) : s[k] = x})

\* the payloads of the inputs from position i on that settled to `tag`, by position
RECURSIVE PayloadsFrom(_, _, _)
PayloadsFrom(j, tag, i) ==
    IF i > Len(Inputs(j)) THEN <<>>
    ELSE (IF i \in TagPositions(j, tag) THEN <<heap[Inputs(j)[i]].val.n>> ELSE <<>>)
             \o PayloadsFrom(j, tag, i + 1)

\* C3: Future.from(p) is pending while p is pending, settles to Ok(v) when p
\* fulfilled with v and to Err(e) when p rejected with e (once the microtasks
\* have run), and never to the other variant.
C3_FromMapsBothChannels ==
    \A f \in Futures : heap[f].origin = "from" =>
        LET p == Source(f) IN
        /\ heap[f].state # "rejected"
        /\ heap[f].state = "fulfilled" =>
              \/ heap[p].state = "fulfilled" /\ heap[f].val = ResultOk(heap[p].val)
              \/ heap[p].state = "rejected" /\ heap[f].val = ResultErr(heap[p].val)
        /\ Quiescent /\ heap[p].state # "pending" => heap[f].state = "fulfilled"

\* C3 witness: a from-Future settled to Err(e) by its promise's rejection
C3_Witness ==
    \E f \in Futures :
        /\ heap[f].origin = "from" /\ heap[f].state = "fulfilled"
        /\ heap[Source(f)].state = "rejected"
        /\ heap[f].val = ResultErr(heap[Source(f)].val)

\* C4: a joined Future settles only after every input settled, to Err of the
\* Err payloads if some input settled to Err and else to Ok of the Ok payloads
\* (one per input), and it does settle once the inputs have and the microtasks
\* ran; join of the empty list settles to Ok([]).
C4_JoinPartitions ==
    \A j \in Joins :
        /\ heap[j].state = "fulfilled" =>
              /\ AllFulfilled(j)
              /\ heap[j].val.isArr
              /\ heap[j].val.tag = IF TagPositions(j, "Err") # {} THEN "Err" ELSE "Ok"
              /\ Len(heap[j].val.s) = Cardinality(TagPositions(j, heap[j].val.tag))
              /\ \A x \in Vals :
                    Occurrences(heap[j].val.s, x) =
                       Cardinality({i \in TagPositions(j, heap[j].val.tag) :
                                       heap[Inputs(j)[i]].val.n = x})
        /\ Quiescent /\ AllFulfilled(j) => heap[j].state = "fulfilled"

\* C4 witness: a join of an Ok-settled and an Err-settled input, settled to Err
C4_Witness ==
    \E j \in Joins :
        /\ heap[j].state = "fulfilled" /\ heap[j].val.tag = "Err"
        /\ TagPositions(j, "Ok") # {} /\ TagPositions(j, "Err") # {}

\* C5: the sequence a joined Future settles to lists the payloads in the order
\* of their Futures' positions in the input list.
C5_JoinKeepsInputOrder ==
    \A j \in Joins :
        heap[j].state = "fulfilled" =>
            heap[j].val.s = PayloadsFrom(j, heap[j].val.tag, 1)

\* C5 witness: a settled join of two inputs with different payloads whose later
\* input completed before its earlier one
C5_Witness ==
    \E j \in Joins :
        /\ heap[j].state = "fulfilled" /\ heap[AllOf(j)].outOfOrder
        /\ Len(heap[j].val.s) = 2 /\ heap[j].val.s[1] # heap[j].val.s[2]

\* C6: while an input of a join is pending, the joined Future is pending.
C6_JoinWaitsForAll == \A j \in Joins : SomePending(j) => heap[j].state = "pending"

\* C6 witness: a join, all microtasks run, with one input settled to Err and
\* another still pending
C6_Witness ==
    \E j \in Joins :
        /\ Quiescent /\ SomePending(j) /\ TagPositions(j, "Err") # {}
        /\ heap[j].state = "pending"

\* a Future built by Future.from from a promise that has rejected natively
FromRejected(f) == heap[f].origin = "from" /\ heap[Source(f)].state = "rejected"

C9_SettlesOnceSourceCompleted ==
    Quiescent =>
        \A f \in Futures :
            /\ heap[f].origin \in {"from", "parse"} /\ heap[Source(f)].state # "pending"
                  => heap[f].state = "fulfilled"
            /\ heap[f].origin = "join" /\ ~SomePending(f) => heap[f].state = "fulfilled"

\* C9 as amended: once the microtasks ran, a from-Future is settled iff its
\* promise has completed, a parse-Future iff its promise has fulfilled, a
\* join-Future iff every input has settled to a Result; so a parse-Future
\* whose promise rejected and a join with a natively rejected input stay
\* pending, like a Future whose wrapped primitive never completes.
C9_SettlesOnceSourceFulfilled ==
    Quiescent =>
        \A f \in Futures :
            /\ heap[f].origin = "from" =>
                  (heap[f].state = "fulfilled" <=> heap[Source(f)].state # "pending")
            /\ heap[f].origin = "parse" =>
                  /\ heap[f].state = "fulfilled" <=> heap[Source(f)].state = "fulfilled"
                  /\ heap[f].state # "fulfilled" => heap[f].state = "pending"
            /\ heap[f].origin = "join" =>
                  /\ heap[f].state = "fulfilled" <=> AllFulfilled(f)
                  /\ heap[f].state # "fulfilled" => heap[f].state = "pending"

\* C9 witness: a parse-Future still pending, all microtasks run, after its
\* promise rejected
C9_Witness ==
    \E f \in Futures :
        /\ heap[f].origin = "parse" /\ heap[Source(f)].state = "rejected"
        /\ Quiescent /\ heap[f].state = "pending"

\* C10: Future.parse(p) settles only to the Result r that p fulfilled with, and
\* does so once p has fulfilled and the microtasks ran.
C10_ParseUnwraps ==
    \A f \in Futures : heap[f].origin = "parse" =>
        /\ heap[f].state = "fulfilled" =>
              /\ heap[Source(f)].state = "fulfilled"
              /\ heap[f].val = heap[Source(f)].val
        /\ Quiescent /\ heap[Source(f)].state = "fulfilled" =>
              /\ heap[f].state = "fulfilled"
              /\ heap[f].val.tag = heap[Source(f)].val.tag
              /\ heap[f].val.n = heap[Source(f)].val.n

\* C10 witness: a parse-Future settled to the Err its promise fulfilled with
C10_Witness ==
    \E f \in Futures :
        /\ heap[f].origin = "parse" /\ heap[f].state = "fulfilled"
        /\ heap[f].val.tag = "Err" /\ heap[f].val = heap[Source(f)].val

\* C11: a Future built by Future.parse from a promise that rejected natively
\* is never settled, neither to Err(e) nor to an Ok: it is pending in every
\* state, and the rejection ends (once the microtasks ran) in the promise that
\* parse's promise.then returned.
C11_ParseLeavesNativeFailure ==
    \A f \in Futures :
        heap[f].origin = "parse" /\ heap[Source(f)].state = "rejected" =>
            /\ heap[f].state = "pending"
            /\ heap[f].first = NoFirst
            /\ Quiescent =>
                  /\ heap[f + 1].state = "rejected"
                  /\ heap[f + 1].val = heap[Source(f)].val

\* C11 witness: a parse-Future of a rejected promise whose rejection has
\* reached the promise that promise.then returned
C11_Witness ==
    \E f \in Futures :
        /\ heap[f].origin = "parse" /\ heap[Source(f)].state = "rejected"
        /\ heap[f + 1].state = "rejected" /\ heap[f].state = "pending"

\* C12: Future.ok(v) returns a Future that is, when ok returns, fulfilled with
\* Ok(v), and Future.err(e) one fulfilled with Err(e), for every v and e; and a
\* Future made by ok is in no state pending or an Err, one made by err in no
\* state pending or an Ok.
C12_FactoriesReturnSettled ==
    [][/\ \A v \in Vals :
             Ok(v) => /\ heap'[Len(heap')].origin = "ok"
                      /\ heap'[Len(heap')].state = "fulfilled"
                      /\ heap'[Len(heap')].val = ResultOk(Raw(v))
       /\ \A e \in Vals :
             Err(e) => /\ heap'[Len(heap')].origin = "err"
                       /\ heap'[Len(heap')].state = "fulfilled"
                       /\ heap'[Len(heap')].val = ResultErr(Raw(e))
       /\ \A f \in 1..Len(heap') :
             /\ heap'[f].origin = "ok"
                   => heap'[f].state = "fulfilled" /\ heap'[f].val.tag = "Ok"
             /\ heap'[f].origin = "err"
                   => heap'[f].state = "fulfilled" /\ heap'[f].val.tag = "Err"]_vars

\* C12 witness: a Future made by ok and one made by err, both settled, and
\* microtasks have run since
C12_Witness ==
    \E f, g \in Futures :
        /\ heap[f].origin = "ok" /\ heap[f].val = ResultOk(Raw(MaxVal))
        /\ heap[g].origin = "err" /\ heap[g].val = ResultErr(Undef)
        /\ \E t \in Futures : heap[t].origin = "then"

\* the Result a settle callback invocation c stands for
ResultOf(c) == IF c.k = "ok" THEN ResultOk(Raw(c.v)) ELSE ResultErr(Raw(c.v))

C18_RaiseAfterSettleIsIgnored ==
    [][/\ \A calls \in SeqsUpTo(Calls, MaxSync), e \in Thrown :
             Construct(calls, TRUE, e) /\ calls # <<>> =>
                 /\ heap'[Len(heap')].raised
                 /\ heap'[Len(heap')].state = "fulfilled"
                 /\ heap'[Len(heap')].val = ResultOf(calls[1])
       /\ \A f \in Futures :
             heap[f].raised /\ heap[f].state = "fulfilled" =>
                 /\ heap'[f].state = "fulfilled"
                 /\ heap'[f].val = heap[f].val /\ heap'[f].val = heap'[f].first]_vars

\* C18 witness: an executor invoked settleOk and then raised, a callback was
\* invoked again, and a join has observed the Future through its then
C18_Witness ==
    \E f \in Futures :
        /\ heap[f].origin = "ctor" /\ heap[f].raised /\ heap[f].again
        /\ heap[f].state = "fulfilled" /\ heap[f].val = ResultOk(Raw(MaxVal))
        /\ \E t \in Futures :
              heap[t].origin = "then" /\ heap[t].src = <<f>> /\ heap[t].state = "fulfilled"

\* ---- helpers of the claims about Option: in a step that is an operation, the
\* instance it was called on (as it was before the call), and the function
\* arguments it invoked
Receiver == opts[lastCall'.self]

Log == lastCall'.invoked

SomeOf(value) == [value |-> value, isSome |-> TRUE]

\* C14: unwrap returns the payload on a Some and raises, by itself, on a None;
\* no other operation raises by itself; and an operation other than unwrap
\* raises only when a function argument it invoked raised.
C14_OnlyUnwrapRaises ==
    [][/\ \A i \in OptIds :
             DoUnwrap(i) =>
                 IF opts[i].isSome
                 THEN /\ ~lastCall'.threw /\ lastCall'.kind = "val"
                      /\ lastCall'.n = opts[i].value
                 ELSE lastCall'.threw /\ lastCall'.own
       /\ lastCall'.threw /\ lastCall'.own => lastCall'.op = "unwrap"
       /\ lastCall'.threw /\ lastCall'.op # "unwrap" =>
             \E k \in 1..Len(Log) : Log[k].k = "throw"]_vars

\* C14 witness: unwrap raised on the shared None, while Somes exist
C14_Witness ==
    /\ lastCall.op = "unwrap" /\ lastCall.self = noneInstance
    /\ lastCall.threw /\ lastCall.own
    /\ \E i \in OptIds : opts[i].isSome

\* C15: map and andThen on a None invoke no function; unwrapOrElse and orElse
\* on a Some invoke no function; match invokes exactly one function, once:
\* `some` with the payload on a Some, `none` on a None.
C15_InactiveBranchNotInvoked ==
    [][/\ lastCall'.op \in {"map", "andThen"} /\ ~Receiver.isSome => Log = <<>>
       /\ lastCall'.op \in {"unwrapOrElse", "orElse"} /\ Receiver.isSome => Log = <<>>
       /\ lastCall'.op = "match" =>
             /\ Len(Log) = 1
             /\ Log[1].fn = (IF Receiver.isSome THEN "some" ELSE "none")
             /\ Receiver.isSome => Log[1].arg = Receiver.value]_vars

\* C15 witness: match on a Some ran its `some` branch, which raised
C15_Witness ==
    /\ lastCall.op = "match" /\ opts[lastCall.self].isSome
    /\ Len(lastCall.invoked) = 1 /\ lastCall.invoked[1].fn = "some"
    /\ lastCall.invoked[1].k = "throw" /\ lastCall.threw

\* C16: for every payload v and function f that returns, Some(v).map(f) is a
\* Some of f(v), f having been invoked with v; Some(v).andThen(f) is the very
\* instance f(v) returned: the instance f captured, the shared None, or the
\* Some f made; map and andThen on a None return the shared None.
C16_MapAndThenResults ==
    [][/\ lastCall'.op = "map" /\ Receiver.isSome =>
             \A f \in ValFns :
                 DoMap(lastCall'.self, f) /\ f[Receiver.value].k = "val" =>
                     /\ lastCall'.kind = "opt"
                     /\ opts'[lastCall'.n] = SomeOf(f[Receiver.value].n)
                     /\ Log = <<[fn |-> "f", arg |-> Receiver.value,
                                 k |-> "val", n |-> f[Receiver.value].n]>>
       /\ lastCall'.op = "andThen" /\ Receiver.isSome =>
             \A f \in OptFns(opts) :
                 DoAndThen(lastCall'.self, f) /\ f[Receiver.value].k # "throw" =>
                     /\ lastCall'.kind = "opt"
                     /\ f[Receiver.value].k = "inst" => lastCall'.n = f[Receiver.value].n
                     /\ f[Receiver.value].k = "none" => lastCall'.n = noneInstance
                     /\ f[Receiver.value].k = "some" =>
                           /\ lastCall'.n = Len(opts) + 1
                           /\ opts'[lastCall'.n] = SomeOf(f[Receiver.value].n)
       /\ lastCall'.op \in {"map", "andThen"} /\ ~Receiver.isSome =>
             /\ lastCall'.kind = "opt" /\ lastCall'.n = noneInstance
             /\ ~opts'[lastCall'.n].isSome]_vars

\* C16 witness: andThen on a Some returned the None its function returned
C16_Witness ==
    /\ lastCall.op = "andThen" /\ opts[lastCall.self].isSome
    /\ lastCall.kind = "opt" /\ lastCall.n = noneInstance
    /\ Len(lastCall.invoked) = 1 /\ lastCall.invoked[1].k = "none"

\* C17: of every instance exactly one of isSome() and isNone() is true; no
\* step changes the fields of an existing instance, the shared None included,
\* which is a None throughout; and an operation that returns an Option
\* returns an instance that existed or one it made.
C17_VariantInvariant ==
    [][/\ Len(opts') >= Len(opts)
       /\ \A i \in OptIds : opts'[i] = opts[i]
       /\ \A i \in 1..Len(opts') :
             OptionIsSome([opts |-> opts', invoked |-> <<>>], i).b
                 # OptionIsNone([opts |-> opts', invoked |-> <<>>], i).b
       /\ ~opts'[noneInstance].isSome
       /\ lastCall'.kind = "opt" => lastCall'.n \in 1..Len(opts')]_vars

\* C17 witness: map on a Some(undefined) returned a new instance with another
\* payload, the receiver being what it was
C17_Witness ==
    /\ lastCall.op = "map" /\ lastCall.kind = "opt" /\ lastCall.n # lastCall.self
    /\ opts[lastCall.self] = SomeOf(0)
    /\ opts[lastCall.n] = SomeOf(MaxVal)

\* C19: Some(undefined) makes an instance that is a Some with payload
\* undefined, and on such an instance isSome() is true, isNone() false,
\* unwrap() returns undefined without raising, unwrapOr(d) returns undefined
\* for every d, map and andThen invoke their function with undefined, and
\* match invokes `some` with undefined.
C19_TagDecidesVariant ==
    [][/\ DoSome(0) =>
             /\ lastCall'.kind = "opt" /\ lastCall'.n = Len(opts')
             /\ opts'[lastCall'.n] = SomeOf(0)
       /\ lastCall'.self \in OptIds /\ Receiver = SomeOf(0) =>
             /\ lastCall'.op = "isSome" => lastCall'.b
             /\ lastCall'.op = "isNone" => ~lastCall'.b
             /\ lastCall'.op \in {"unwrap", "unwrapOr"} =>
                   ~lastCall'.threw /\ lastCall'.kind = "val" /\ lastCall'.n = 0
             /\ lastCall'.op \in {"map", "andThen", "match"} =>
                   /\ Len(Log) = 1 /\ Log[1].arg = 0
                   /\ Log[1].fn = (CASE lastCall'.op = "map" -> "f"
                                      [] lastCall'.op = "andThen" -> "other"
                                      [] lastCall'.op = "match" -> "some")]_vars

\* C19 witness: unwrapOr(d) on a Some(undefined), with d defined, returned
\* undefined
C19_Witness ==
    /\ lastCall.op = "unwrapOr" /\ opts[lastCall.self] = SomeOf(0)
    /\ lastCall.arg = MaxVal /\ lastCall.kind = "val" /\ lastCall.n = 0

====
